---- MODULE Spec2Model ----
(***************************************************************************)
(* sshproxy client (src/src/main.rs): fetch a short-lived SSH key and      *)
(* certificate from the issuance endpoint using a password and a TOTP code *)
(* kept in the OS keychain, and persist them under ~/.ssh.                 *)
(*                                                                         *)
(* Text is modelled as sequences of one-character strings, bytes as        *)
(* sequences of 0..255, 32-bit words as pairs <<high 16 bits, low 16>>.    *)
(***************************************************************************)
EXTENDS Integers, Sequences, FiniteSets, TLC

(***************************************************************************)
(* Program constants and literals                                          *)
(***************************************************************************)
\* const SERVICE_NAME (main.rs:9)
SERVICE_NAME == "NERSC"
\* format!("{}_SECRET", SERVICE_NAME) (main.rs:44, main.rs:59)
SECRET_SERVICE == "NERSC_SECRET"

\* the literal searched for at main.rs:110
AUTH_FAILED ==
  <<"A", "u", "t", "h", "e", "n", "t", "i", "c", "a", "t", "i", "o", "n", " ", "f", "a", "i",
    "l", "e", "d">>
\* the literals searched for at main.rs:115-116
RSA_HEADER ==
  <<"-", "-", "-", "-", "-", "B", "E", "G", "I", "N", " ", "R", "S", "A", " ", "P", "R", "I",
    "V", "A", "T", "E", " ", "K", "E", "Y", "-", "-", "-", "-", "-">>
OPENSSH_HEADER ==
  <<"-", "-", "-", "-", "-", "B", "E", "G", "I", "N", " ", "O", "P", "E", "N", "S", "S", "H",
    " ", "P", "R", "I", "V", "A", "T", "E", " ", "K", "E", "Y", "-", "-", "-", "-", "-">>
\* the literals searched for at main.rs:130
SSH_RSA == <<"s", "s", "h", "-", "r", "s", "a">>
SSH_ED25519 == <<"s", "s", "h", "-", "e", "d", "2", "5", "5", "1", "9">>

(***************************************************************************)
(* str helpers                                                             *)
(***************************************************************************)
\* str::contains(pattern): pattern occurs as a contiguous substring
Contains(s, p) ==
  \E i \in 1..(Len(s) - Len(p) + 1) : SubSeq(s, i, i + Len(p) - 1) = p

\* str::lines(): the text is cut after every "\n"; each piece loses its final
\* "\n" and then, only if it had one, a final "\r".  LineStarts is the set of
\* positions where a line begins, LineAt(s, a) the line beginning at a.
LineStarts(s) ==
  {a \in 1..Len(s) : a = 1 \/ s[a - 1] = "\n"}

LineAt(s, a) ==
  LET nls == {i \in a..Len(s) : s[i] = "\n"}
      e == IF nls = {} THEN Len(s) + 1 ELSE CHOOSE i \in nls : \A j \in nls : i <= j
      stripCr == e <= Len(s) /\ e - 1 >= a /\ s[e - 1] = "\r"
  IN SubSeq(s, a, IF stripCr THEN e - 2 ELSE e - 1)

(***************************************************************************)
(* Exchange Client: classification of the response (main.rs:102-124)       *)
(***************************************************************************)
\* StatusCode::is_success(): 200..=299
is_success(status) == status >= 200 /\ status <= 299

Ok(v) == [ok |-> TRUE, value |-> v]
Err(kind) == [ok |-> FALSE, error |-> kind]

\* mutation: only status 200 is taken as success
ClassifyResponse_Only200(status, body) ==
  IF status # 200 THEN Err("ExchangeFailed")
  ELSE IF Contains(body, AUTH_FAILED) THEN Err("AuthenticationFailed")
  ELSE IF ~Contains(body, RSA_HEADER) /\ ~Contains(body, OPENSSH_HEADER)
       THEN Err("MalformedResponse")
  ELSE Ok(body)

\* mutation: the private-key header is tested before the authentication failure
ClassifyResponse_HeaderFirst(status, body) ==
  IF ~is_success(status) THEN Err("ExchangeFailed")
  ELSE IF Contains(body, RSA_HEADER) \/ Contains(body, OPENSSH_HEADER) THEN Ok(body)
  ELSE IF Contains(body, AUTH_FAILED) THEN Err("AuthenticationFailed")
  ELSE Err("MalformedResponse")

\* request_ssh_key after the response arrived: the three bail! tests in order
ClassifyResponse(status, body) ==
  IF ~is_success(status) THEN Err("ExchangeFailed")
  ELSE IF Contains(body, AUTH_FAILED) THEN Err("AuthenticationFailed")
  ELSE IF ~Contains(body, RSA_HEADER) /\ ~Contains(body, OPENSSH_HEADER)
       THEN Err("MalformedResponse")
  ELSE Ok(body)

(***************************************************************************)
(* Bundle Parser (main.rs:128-135)                                         *)
(***************************************************************************)
IsCertLine(line) == Contains(line, SSH_RSA) \/ Contains(line, SSH_ED25519)

\* mutation: the scan keeps going and returns the last matching line
extract_certificate_LastMatch(key_content) ==
  LET hits == {a \in LineStarts(key_content) : IsCertLine(LineAt(key_content, a))}
  IN IF hits = {} THEN Err("NoCertificateFound")
     ELSE Ok(LineAt(key_content, CHOOSE a \in hits : \A b \in hits : a >= b))

\* for line in key_content.lines() { if ... { return Ok(line) } } bail!(...)
extract_certificate(key_content) ==
  LET hits == {a \in LineStarts(key_content) : IsCertLine(LineAt(key_content, a))}
  IN IF hits = {} THEN Err("NoCertificateFound")
     ELSE Ok(LineAt(key_content, CHOOSE a \in hits : \A b \in hits : a <= b))

(***************************************************************************)
(* Base32 (data_encoding::BASE32_NOPAD.decode, main.rs:71-73)              *)
(***************************************************************************)
LOWERCASE ==
  <<"a", "b", "c", "d", "e", "f", "g", "h", "i", "j", "k", "l", "m", "n", "o", "p", "q", "r",
    "s", "t", "u", "v", "w", "x", "y", "z">>
UPPERCASE ==
  <<"A", "B", "C", "D", "E", "F", "G", "H", "I", "J", "K", "L", "M", "N", "O", "P", "Q", "R",
    "S", "T", "U", "V", "W", "X", "Y", "Z">>
BASE32_ALPHABET ==
  <<"A", "B", "C", "D", "E", "F", "G", "H", "I", "J", "K", "L", "M", "N", "O", "P", "Q", "R",
    "S", "T", "U", "V", "W", "X", "Y", "Z", "2", "3", "4", "5", "6", "7">>

\* the element of a one-element set: The({e(x) : x \in {v}}) is e at the value
\* of v, with v computed once
The(S) == CHOOSE x \in S : TRUE

IndexOf(alphabet, c) == CHOOSE i \in 1..Len(alphabet) : alphabet[i] = c
InAlphabet(alphabet, c) == \E i \in 1..Len(alphabet) : alphabet[i] = c

\* str::to_uppercase on the ASCII letters
to_uppercase(s) ==
  [i \in 1..Len(s) |->
     IF InAlphabet(LOWERCASE, s[i]) THEN UPPERCASE[IndexOf(LOWERCASE, s[i])] ELSE s[i]]

\* bit k (0 = first) of the 5-bit-per-symbol stream of the symbol values v
StreamBit(v, k) == (v[(k \div 5) + 1] \div (CASE k % 5 = 0 -> 16 [] k % 5 = 1 -> 8
                                            [] k % 5 = 2 -> 4 [] k % 5 = 3 -> 2
                                            [] OTHER -> 1)) % 2

StreamByte(v, j) ==
  (128 * StreamBit(v, 8 * j)) + (64 * StreamBit(v, (8 * j) + 1))
  + (32 * StreamBit(v, (8 * j) + 2)) + (16 * StreamBit(v, (8 * j) + 3))
  + (8 * StreamBit(v, (8 * j) + 4)) + (4 * StreamBit(v, (8 * j) + 5))
  + (2 * StreamBit(v, (8 * j) + 6)) + StreamBit(v, (8 * j) + 7)

\* unpadded base32: every symbol in the alphabet, a length that some byte
\* string encodes to, and zero trailing bits; the result is the byte string
base32_decode(s) ==
  The({ IF \E i \in 1..Len(t) : ~InAlphabet(BASE32_ALPHABET, t[i]) THEN Err("InvalidSecret")
        ELSE IF (Len(t) % 8) \in {1, 3, 6} THEN Err("InvalidSecret")
        ELSE The({ IF \E k \in (8 * ((5 * Len(t)) \div 8))..((5 * Len(t)) - 1) :
                        StreamBit(v, k) = 1
                   THEN Err("InvalidSecret")
                   ELSE Ok([j \in 1..((5 * Len(t)) \div 8) |-> StreamByte(v, j - 1)])
                   : v \in {[i \in 1..Len(t) |-> IndexOf(BASE32_ALPHABET, t[i]) - 1]} })
        : t \in {s} })

(***************************************************************************)
(* HMAC-SHA1 and HOTP truncation (totp_lite::totp_custom::<Sha1>,          *)
(* main.rs:79)                                                             *)
(***************************************************************************)
\* bitwise operations on 4-bit values
Xor4(a, b) == ((a + b) % 2) + (2 * (((a \div 2) + (b \div 2)) % 2))
              + (4 * (((a \div 4) + (b \div 4)) % 2)) + (8 * (((a \div 8) + (b \div 8)) % 2))
And4(a, b) == ((a % 2) * (b % 2)) + (2 * (((a \div 2) % 2) * ((b \div 2) % 2)))
              + (4 * (((a \div 4) % 2) * ((b \div 4) % 2))) + (8 * ((a \div 8) * (b \div 8)))

\* bytes, 16-bit values, and 32-bit words <<hi, lo>>
Byte == 0..255
Half == 0..65535
Word == Half \X Half

BitXor[a \in Half, b \in Half] ==
  Xor4(a % 16, b % 16) + (16 * Xor4((a \div 16) % 16, (b \div 16) % 16))
  + (256 * Xor4((a \div 256) % 16, (b \div 256) % 16)) + (4096 * Xor4(a \div 4096, b \div 4096))
BitAnd[a \in Half, b \in Half] ==
  And4(a % 16, b % 16) + (16 * And4((a \div 16) % 16, (b \div 16) % 16))
  + (256 * And4((a \div 256) % 16, (b \div 256) % 16)) + (4096 * And4(a \div 4096, b \div 4096))

WXor[x \in Word, y \in Word] == <<BitXor[x[1], y[1]], BitXor[x[2], y[2]]>>
WAnd[x \in Word, y \in Word] == <<BitAnd[x[1], y[1]], BitAnd[x[2], y[2]]>>
WNot[x \in Word] == <<65535 - x[1], 65535 - x[2]>>
\* x | y for words with no common bit
WOrDisjoint[x \in Word, y \in Word] == <<x[1] + y[1], x[2] + y[2]>>
\* wrapping_add
WAdd[x \in Word, y \in Word] ==
  <<(x[1] + y[1] + ((x[2] + y[2]) \div 65536)) % 65536, (x[2] + y[2]) % 65536>>

Pow2(n) == CASE n = 0 -> 1 [] n = 1 -> 2 [] n = 2 -> 4 [] n = 3 -> 8 [] n = 4 -> 16
             [] n = 5 -> 32 [] n = 6 -> 64 [] n = 7 -> 128 [] n = 8 -> 256 [] n = 9 -> 512
             [] n = 10 -> 1024 [] n = 11 -> 2048 [] n = 12 -> 4096 [] n = 13 -> 8192
             [] n = 14 -> 16384 [] n = 15 -> 32768 [] OTHER -> 65536

\* rotate_left
RotlSmall(x, n) ==
  IF n = 0 THEN x
  ELSE <<((x[1] * Pow2(n)) % 65536) + (x[2] \div Pow2(16 - n)),
         ((x[2] * Pow2(n)) % 65536) + (x[1] \div Pow2(16 - n))>>
Rotl[x \in Word, n \in 0..31] ==
  IF n < 16 THEN RotlSmall(x, n) ELSE RotlSmall(<<x[2], x[1]>>, n - 16)

WordOfBytes(b, i) == <<(b[i] * 256) + b[i + 1], (b[i + 2] * 256) + b[i + 3]>>
BytesOfWord(w) == <<w[1] \div 256, w[1] % 256, w[2] \div 256, w[2] % 256>>

Zeros(n) == [i \in 1..n |-> 0]

\* SHA-1 padding: 0x80, zeros up to 56 mod 64, the bit length as 8 big-endian
\* bytes (messages here are shorter than 2^13 bytes)
Sha1Pad(m) ==
  m \o <<128>> \o Zeros((119 - (Len(m) % 64)) % 64)
    \o <<0, 0, 0, 0, 0, 0, (Len(m) * 8) \div 256, (Len(m) * 8) % 256>>

\* message schedule: w[t] = rotl(w[t-3] ^ w[t-8] ^ w[t-14] ^ w[t-16], 1), for
\* t in lo..hi; the range is extended by halves
RECURSIVE Schedule(_, _, _)
Schedule(w, lo, hi) ==
  IF lo > hi THEN w
  ELSE IF lo = hi
  THEN Append(w, Rotl[WXor[WXor[w[lo - 3], w[lo - 8]], WXor[w[lo - 14], w[lo - 16]]], 1])
  ELSE The({ Schedule(a, ((lo + hi) \div 2) + 1, hi)
             : a \in {Schedule(w, lo, (lo + hi) \div 2)} })

Sha1F(t, b, c, d) ==
  IF t < 20 THEN WOrDisjoint[WAnd[b, c], WAnd[WNot[b], d]]
  ELSE IF t >= 40 /\ t < 60 THEN WOrDisjoint[WAnd[b, c], WAnd[d, WXor[b, c]]]
  ELSE WXor[WXor[b, c], d]

Sha1K(t) == IF t < 20 THEN <<23170, 31129>>
            ELSE IF t < 40 THEN <<28377, 60321>>
            ELSE IF t < 60 THEN <<36635, 48348>>
            ELSE <<51810, 49622>>

Round(w, s, t) ==
  <<WAdd[WAdd[WAdd[WAdd[Rotl[s[1], 5], Sha1F(t, s[2], s[3], s[4])], s[5]], Sha1K(t)],
         w[t + 1]],
    s[1], Rotl[s[2], 30], s[3], s[4]>>

\* the rounds lo..hi, by halves
RECURSIVE Rounds(_, _, _, _)
Rounds(w, s, lo, hi) ==
  IF lo > hi THEN s
  ELSE IF lo = hi THEN Round(w, s, lo)
  ELSE The({ Rounds(w, a, ((lo + hi) \div 2) + 1, hi)
             : a \in {Rounds(w, s, lo, (lo + hi) \div 2)} })

\* the compression of the 64-byte block of p that starts at i
Compress(h, p, i) ==
  The({ <<WAdd[h[1], s[1]], WAdd[h[2], s[2]], WAdd[h[3], s[3]], WAdd[h[4], s[4]],
          WAdd[h[5], s[5]]>>
        : s \in { Rounds(w, h, 0, 79)
                  : w \in {Schedule(<<>> \o [k \in 1..16 |->
                                               WordOfBytes(p, i + (4 * (k - 1)))],
                                    17, 80)} } })

RECURSIVE Blocks(_, _, _)
Blocks(h, p, i) ==
  IF i > Len(p) THEN h
  ELSE The({ Blocks(n, p, i + 64) : n \in {Compress(h, p, i)} })

Sha1H0 == <<<<26437, 8961>>, <<61389, 43913>>, <<39098, 56574>>, <<4146, 21622>>,
            <<50130, 57840>>>>

Sha1[m \in Seq(Byte)] ==
  The({ BytesOfWord(h[1]) \o BytesOfWord(h[2]) \o BytesOfWord(h[3]) \o BytesOfWord(h[4])
          \o BytesOfWord(h[5])
        : h \in { Blocks(Sha1H0, p, 1) : p \in {Sha1Pad(m)} } })

HmacSha1[key \in Seq(Byte), msg \in Seq(Byte)] ==
  The({ Sha1[[i \in 1..64 |-> BitXor[k[i], 92]] \o Sha1[[i \in 1..64 |-> BitXor[k[i], 54]] \o msg]]
        : k \in { k0 \o Zeros(64 - Len(k0))
                  : k0 \in {IF Len(key) > 64 THEN Sha1[key] ELSE key} } })

\* u64::to_be_bytes of a counter below 2^31
to_bytes(c) ==
  <<0, 0, 0, 0, (c \div 16777216) % 256, (c \div 65536) % 256, (c \div 256) % 256, c % 256>>

\* decimal digits of n, least significant last, zero-padded on the left to
\* `digits` characters: format!("{:01$}", n, digits)
Digit(d) == CASE d = 0 -> "0" [] d = 1 -> "1" [] d = 2 -> "2" [] d = 3 -> "3"
              [] d = 4 -> "4" [] d = 5 -> "5" [] d = 6 -> "6" [] d = 7 -> "7"
              [] d = 8 -> "8" [] OTHER -> "9"
Decimal[n \in Nat] ==
  IF n < 10 THEN <<Digit(n)>> ELSE Append(Decimal[n \div 10], Digit(n % 10))
ZeroPadded[n \in Nat, digits \in Nat] ==
  The({ IF Len(d) >= digits THEN d ELSE [i \in 1..(digits - Len(d)) |-> "0"] \o d
        : d \in {Decimal[n]} })

RECURSIVE Pow10(_)
Pow10(n) == IF n = 0 THEN 1 ELSE 10 * Pow10(n - 1)

\* dynamic truncation; the 31-bit value is reduced mod 10^digits (digits <= 9)
\* as ((top byte * 2^24 mod 10^digits) + low 24 bits) mod 10^digits
Truncated[hash \in Seq(Byte), digits \in Nat] ==
  LET offset == hash[20] % 16
      top == hash[offset + 1] % 128
      low == (hash[offset + 2] * 65536) + (hash[offset + 3] * 256) + hash[offset + 4]
  IN ((((top * 16777216) % Pow10(digits)) + low) % Pow10(digits))

\* mutation: the counter is the time itself, not the number of the time step
totp_custom_NoStep(step, digits, secret, time) ==
  ZeroPadded[Truncated[HmacSha1[secret, to_bytes(time)], digits], digits]

\* totp_custom::<Sha1>(step, digits, secret, time)
totp_custom(step, digits, secret, time) ==
  ZeroPadded[Truncated[HmacSha1[secret, to_bytes(time \div step)], digits], digits]

\* format!("{:06}", s) of a string: padded with spaces on the right to 6
format06(s) ==
  The({ IF Len(t) >= 6 THEN t ELSE t \o [i \in 1..(6 - Len(t)) |-> " "] : t \in {s} })

(***************************************************************************)
(* TOTP Generator (main.rs:66-82); `now` is the clock reading of line 76    *)
(***************************************************************************)
generate_totp(secret, now) ==
  The({ IF ~secret_bytes.ok THEN Err("InvalidSecret")
        ELSE Ok(format06(totp_custom(30, 6, secret_bytes.value, now)))
        : secret_bytes \in {base32_decode(to_uppercase(secret))} })

(***************************************************************************)
(* Inputs of the model                                                     *)
(***************************************************************************)
None == [some |-> FALSE]
Some(v) == [some |-> TRUE, value |-> v]

\* the accounts an invocation can name or run as
Accounts == {"alice", "bob"}

\* what the user types at the prompt of main.rs:214 / main.rs:223
PASSWORD_OLD == <<"p", "@", "s", "s">>
PASSWORD_NEW == <<"h", "u", "n", "t", "e", "r", "2">>
SEED_VALID ==
  <<"G", "E", "Z", "D", "G", "N", "B", "V", "G", "Y", "3", "T", "Q", "O", "J", "Q", "G", "E",
    "Z", "D", "G", "N", "B", "V", "G", "Y", "3", "T", "Q", "O", "J", "Q">>
SEED_INVALID == <<"n", "o", "t", "-", "b", "a", "s", "e", "3", "2", "!">>
Passwords == {PASSWORD_OLD, PASSWORD_NEW}
Seeds == {SEED_VALID, SEED_INVALID}

\* clock readings of main.rs:76
Times == {59, 1111111109}

\* response bodies of the issuance endpoint
BUNDLE_RSA ==
  <<"-", "-", "-", "-", "-", "B", "E", "G", "I", "N", " ", "R", "S", "A", " ", "P", "R", "I",
    "V", "A", "T", "E", " ", "K", "E", "Y", "-", "-", "-", "-", "-", "\n", "M", "I", "I", "E",
    "\n", "-", "-", "-", "-", "-", "E", "N", "D", " ", "R", "S", "A", " ", "P", "R", "I", "V",
    "A", "T", "E", " ", "K", "E", "Y", "-", "-", "-", "-", "-", "\n", "s", "s", "h", "-", "r",
    "s", "a", "-", "c", "e", "r", "t", "-", "v", "0", "1", "@", "o", "p", "e", "n", "s", "s",
    "h", ".", "c", "o", "m", " ", "A", "A", "A", "A", "\n">>
BODY_AUTH_FAILED ==
  <<"A", "u", "t", "h", "e", "n", "t", "i", "c", "a", "t", "i", "o", "n", " ", "f", "a", "i",
    "l", "e", "d", ".", " ", "F", "a", "i", "l", "e", "d", " ", "l", "o", "g", "i", "n">>
BODY_HTML ==
  <<"<", "h", "t", "m", "l", ">", "m", "a", "i", "n", "t", "e", "n", "a", "n", "c", "e", "<",
    "/", "h", "t", "m", "l", ">">>
BUNDLE_WITHOUT_CERT ==
  <<"-", "-", "-", "-", "-", "B", "E", "G", "I", "N", " ", "O", "P", "E", "N", "S", "S", "H",
    " ", "P", "R", "I", "V", "A", "T", "E", " ", "K", "E", "Y", "-", "-", "-", "-", "-", "\n",
    "b", "3", "B", "l", "\n">>
MainBodies == {BUNDLE_RSA, BODY_AUTH_FAILED, BODY_HTML, BUNDLE_WITHOUT_CERT}
MainStatuses == {200, 500}

\* standard output of `ssh-keygen -y`
PUBLIC_KEY == <<"s", "s", "h", "-", "r", "s", "a", " ", "A", "A", "A", "A", "B", "3", "\n">>

\* process umasks, and the mode bits used by the program and the platform
Umasks == {18, 63}             \* 0o022, 0o077
MODE_CREATE == 438             \* 0o666: mode fs::write asks for when it creates
MODE_600 == 384                \* 0o600 (main.rs:145)
MODE_ALL == 511                \* 0o777

\* number of process invocations explored
MaxInvocations == 2

(***************************************************************************)
(* State                                                                   *)
(***************************************************************************)
VARIABLES
  keychain,      \* secret store: <<service, account>> -> None | Some(secret)
  files,         \* ~/.ssh/nersc, nersc-cert.pub, nersc.pub
  umask,         \* the process umask, once a file creation has observed it
  invocations,   \* process invocations started so far
  pc,            \* position of the current invocation in main
  args,          \* Args (main.rs:20-32)
  envUser,       \* the USER environment variable
  username,      \* main.rs:206
  user,          \* main.rs:234
  password,      \* main.rs:237
  otp_secret,    \* main.rs:240
  password_otp,  \* main.rs:247
  key_content,   \* main.rs:252
  cert_content,  \* main.rs:255
  err,           \* the error main returned, "none" while there is none
  requestsSent,  \* requests sent to the issuance endpoint by this invocation
  reported,      \* "Successfully obtained ssh key" was printed (main.rs:260)
  validity,      \* "Key is ..." line printed (main.rs:265)
  start,         \* keychain and files when the invocation started
  entered,       \* what was typed at the prompt in this invocation
  toolFailed,    \* ssh-keygen runs of this invocation that exited non-zero
  probe          \* the last applications of the pure functions

locals == <<username, user, password, otp_secret, password_otp, key_content, cert_content>>
outputs == <<reported, validity>>
history == <<start, entered, toolFailed>>
invocation == <<invocations, args, envUser>>
vars == <<keychain, files, umask, invocations, pc, args, envUser, username, user, password,
          otp_secret, password_otp, key_content, cert_content, err, requestsSent,
          reported, validity, start, entered, toolFailed, probe>>

Absent == [exists |-> FALSE]
File(mode, content) == [exists |-> TRUE, mode |-> mode, content |-> content]

\* mode & !umask on the nine permission bits
ApplyUmask(mode, mask) == BitAnd[mode, MODE_ALL - mask]

\* fs::write(path, content): open(O_WRONLY|O_CREAT|O_TRUNC, 0o666), write_all.
\* A new file gets 0o666 & !umask, an existing one keeps its mode.  outcome:
\* "open_failed" leaves the file alone, "write_failed" leaves it truncated.
fs_write(f, content, mask, outcome) ==
  LET mode == IF f.exists THEN f.mode ELSE ApplyUmask(MODE_CREATE, mask)
  IN CASE outcome = "open_failed" -> f
       [] outcome = "write_failed" -> File(mode, <<>>)
       [] OTHER -> File(mode, content)
WriteOutcomes == {"ok", "open_failed", "write_failed"}

Keys == {SERVICE_NAME, SECRET_SERVICE} \X Accounts

\* set_generic_password(service, account, value)
set_generic_password(kc, service, account, value) ==
  [kc EXCEPT ![<<service, account>>] = Some(value)]
\* get_generic_password(service, account)
get_generic_password(kc, service, account) == kc[<<service, account>>]

EmptyKeychain == [k \in Keys |-> None]
InitKeychains ==
  { EmptyKeychain,
    [EmptyKeychain EXCEPT ![<<SERVICE_NAME, "alice">>] = Some(PASSWORD_OLD),
                          ![<<SECRET_SERVICE, "alice">>] = Some(SEED_VALID)],
    [EmptyKeychain EXCEPT ![<<SERVICE_NAME, "alice">>] = Some(PASSWORD_OLD),
                          ![<<SERVICE_NAME, "bob">>] = Some(PASSWORD_NEW),
                          ![<<SECRET_SERVICE, "bob">>] = Some(SEED_INVALID)] }

NoFiles == [key |-> Absent, cert |-> Absent, pub |-> Absent]
InitFiles ==
  { NoFiles,
    [key |-> File(MODE_600, BUNDLE_RSA),
     cert |-> File(420, extract_certificate(BUNDLE_RSA).value),
     pub |-> File(420, PUBLIC_KEY)] }

NoProbe == [op |-> "none"]

Init ==
  /\ keychain \in InitKeychains
  /\ files \in InitFiles
  /\ umask = None
  /\ invocations = 0
  /\ pc = "idle"
  /\ args = [username |-> None, update_password |-> FALSE, update_secret |-> FALSE]
  /\ envUser = None
  /\ username = None /\ user = None /\ password = None /\ otp_secret = None
  /\ password_otp = None /\ key_content = None /\ cert_content = None
  /\ err = "none"
  /\ requestsSent = 0
  /\ reported = FALSE /\ validity = None
  /\ start = [keychain |-> keychain, files |-> files]
  /\ entered = None
  /\ toolFailed = {}
  /\ probe = NoProbe

Terminal == {"done", "failed", "panicked"}

\* main returns Err(kind): the process prints it and exits non-zero
Fail(kind) == pc' = "failed" /\ err' = kind

(***************************************************************************)
(* One process invocation: main (main.rs:201-269)                          *)
(***************************************************************************)
ArgsSet == [username : {None} \cup {Some(a) : a \in Accounts},
            update_password : BOOLEAN, update_secret : BOOLEAN]
EnvUsers == {None} \cup {Some(a) : a \in Accounts}

\* the process starts: Args::parse() (main.rs:203)
Invoke ==
  /\ pc \in Terminal \cup {"idle"}
  /\ invocations < MaxInvocations
  /\ invocations' = invocations + 1
  /\ args' \in ArgsSet
  /\ envUser' \in EnvUsers
  /\ pc' = "username"
  /\ username' = None /\ user' = None /\ password' = None /\ otp_secret' = None
  /\ password_otp' = None /\ key_content' = None /\ cert_content' = None
  /\ err' = "none"
  /\ requestsSent' = 0
  /\ reported' = FALSE /\ validity' = None
  /\ start' = [keychain |-> keychain, files |-> files]
  /\ entered' = None
  /\ toolFailed' = {}
  /\ umask' = None
  /\ UNCHANGED <<keychain, files, probe>>

\* the mode main enters after the username is known (main.rs:212, 221)
ModeAfterPassword(a) == IF a.update_secret THEN "update_secret" ELSE "output_path"
ModeAfterUsername(a) == IF a.update_password THEN "update_password" ELSE ModeAfterPassword(a)

\* args.username.unwrap_or_else(|| env::var("USER").expect(..)) (main.rs:206-209)
ActingUsername(a, e) == IF a.username.some THEN a.username ELSE e

ResolveUsername ==
  /\ pc = "username"
  /\ IF ActingUsername(args, envUser).some
     THEN /\ username' = ActingUsername(args, envUser)
          /\ pc' = ModeAfterUsername(args)
     ELSE /\ pc' = "panicked"
          /\ UNCHANGED username
  /\ UNCHANGED <<keychain, files, umask, invocation, user, password, otp_secret, password_otp,
                 key_content, cert_content, err, requestsSent, outputs, history, probe>>

\* mutation: no `return` after the password was stored
UpdatePassword_FallThrough ==
  /\ pc = "update_password"
  /\ \E typed \in Passwords, io \in {"ok", "read_failed", "set_failed"} :
       IF io = "ok"
       THEN /\ keychain' = set_generic_password(keychain, SERVICE_NAME, username.value, typed)
            /\ entered' = Some(typed)
            /\ pc' = ModeAfterPassword(args)
            /\ UNCHANGED err
       ELSE /\ entered' = IF io = "set_failed" THEN Some(typed) ELSE None
            /\ Fail("SecretStoreFailed")
            /\ UNCHANGED keychain
  /\ UNCHANGED <<files, umask, invocation, locals, requestsSent, outputs, start, toolFailed, probe>>

\* main.rs:212-218 with update_password (main.rs:35-40)
UpdatePassword ==
  /\ pc = "update_password"
  /\ \E typed \in Passwords, io \in {"ok", "read_failed", "set_failed"} :
       IF io = "ok"
       THEN /\ keychain' = set_generic_password(keychain, SERVICE_NAME, username.value, typed)
            /\ entered' = Some(typed)
            /\ pc' = "done"
            /\ UNCHANGED err
       ELSE /\ entered' = IF io = "set_failed" THEN Some(typed) ELSE None
            /\ Fail("SecretStoreFailed")
            /\ UNCHANGED keychain
  /\ UNCHANGED <<files, umask, invocation, locals, requestsSent, outputs, start, toolFailed, probe>>

\* main.rs:221-227 with update_secret (main.rs:42-48)
UpdateSecret ==
  /\ pc = "update_secret"
  /\ \E typed \in Seeds, io \in {"ok", "read_failed", "set_failed"} :
       IF io = "ok"
       THEN /\ keychain' = set_generic_password(keychain, SECRET_SERVICE, username.value, typed)
            /\ entered' = Some(typed)
            /\ pc' = "done"
            /\ UNCHANGED err
       ELSE /\ entered' = IF io = "set_failed" THEN Some(typed) ELSE None
            /\ Fail("SecretStoreFailed")
            /\ UNCHANGED keychain
  /\ UNCHANGED <<files, umask, invocation, locals, requestsSent, outputs, start, toolFailed, probe>>

\* dirs::home_dir() (main.rs:230-231)
DetermineOutputPath ==
  /\ pc = "output_path"
  /\ \E home \in BOOLEAN :
       IF home THEN pc' = "env_user" /\ UNCHANGED err
       ELSE Fail("NoHomeDirectory")
  /\ UNCHANGED <<keychain, files, umask, invocation, locals, requestsSent, outputs, history, probe>>

\* env::var("USER") (main.rs:234)
FetchAccount(a, e) == e

GetEnvUser ==
  /\ pc = "env_user"
  /\ IF FetchAccount(args, envUser).some
     THEN /\ user' = FetchAccount(args, envUser)
          /\ pc' = "get_password"
          /\ UNCHANGED err
     ELSE /\ Fail("NoUsername")
          /\ UNCHANGED user
  /\ UNCHANGED <<keychain, files, umask, invocation, username, password, otp_secret, password_otp,
                 key_content, cert_content, requestsSent, outputs, history, probe>>

\* get_password(&user) (main.rs:237-238, 51-55)
GetPassword ==
  /\ pc = "get_password"
  /\ LET r == get_generic_password(keychain, SERVICE_NAME, user.value)
     IN IF r.some
        THEN password' = r /\ pc' = "get_otp_secret" /\ UNCHANGED err
        ELSE Fail("SecretNotFound") /\ UNCHANGED password
  /\ UNCHANGED <<keychain, files, umask, invocation, username, user, otp_secret, password_otp,
                 key_content, cert_content, requestsSent, outputs, history, probe>>

\* get_otp_secret(&user) (main.rs:240-241, 58-63)
GetOtpSecret ==
  /\ pc = "get_otp_secret"
  /\ LET r == get_generic_password(keychain, SECRET_SERVICE, user.value)
     IN IF r.some
        THEN otp_secret' = r /\ pc' = "generate_totp" /\ UNCHANGED err
        ELSE Fail("SecretNotFound") /\ UNCHANGED otp_secret
  /\ UNCHANGED <<keychain, files, umask, invocation, username, user, password, password_otp,
                 key_content, cert_content, requestsSent, outputs, history, probe>>

\* Credential Combiner: format!("{}{}", password, totp_code) (main.rs:247)
combine(pw, code) == pw \o code

\* generate_totp(&otp_secret)? and the token (main.rs:244-247)
GenerateTotp ==
  /\ pc = "generate_totp"
  /\ \E now \in Times :
       LET totp_code == generate_totp(otp_secret.value, now)
       IN IF totp_code.ok
          THEN /\ password_otp' = Some(combine(password.value, totp_code.value))
               /\ pc' = "send"
               /\ UNCHANGED err
          ELSE /\ Fail(totp_code.error)
               /\ UNCHANGED password_otp
  /\ UNCHANGED <<keychain, files, umask, invocation, username, user, password, otp_secret,
                 key_content, cert_content, requestsSent, outputs, history, probe>>

\* request_ssh_key up to the send (main.rs:86-100): one POST is handed to the
\* connection; building the client can fail before anything is sent
SendRequest ==
  /\ pc = "send"
  /\ \E built \in BOOLEAN :
       IF built
       THEN /\ requestsSent' = requestsSent + 1
            /\ pc' = "await"
            /\ UNCHANGED err
       ELSE /\ Fail("ClientBuildFailed")
            /\ UNCHANGED requestsSent
  /\ UNCHANGED <<keychain, files, umask, invocation, locals, outputs, history, probe>>

\* what comes back from the connection (main.rs:97-103)
Replies ==
  {[kind |-> "send_failed"], [kind |-> "body_failed"]}
    \cup {[kind |-> "response", status |-> s, body |-> b] : s \in MainStatuses, b \in MainBodies}

\* the rest of request_ssh_key (main.rs:97-124)
request_result(reply) ==
  CASE reply.kind = "send_failed" -> Err("SendFailed")
    [] reply.kind = "body_failed" -> Err("BodyReadFailed")
    [] OTHER -> ClassifyResponse(reply.status, reply.body)

\* mutation: a failed exchange is sent again
AwaitResponse_Retry ==
  /\ pc = "await"
  /\ \E reply \in Replies :
       LET r == request_result(reply)
       IN IF r.ok
          THEN key_content' = Some(r.value) /\ pc' = "extract"
          ELSE UNCHANGED key_content /\ pc' = "send"
  /\ UNCHANGED <<keychain, files, umask, invocation, username, user, password, otp_secret,
                 password_otp, cert_content, err, requestsSent, outputs, history, probe>>

\* mutation: the body is saved to the key file before it is classified
AwaitResponse_SaveFirst ==
  /\ pc = "await"
  /\ \E reply \in Replies :
       LET r == request_result(reply)
       IN /\ files' = IF reply.kind = "response"
                      THEN [files EXCEPT !.key = fs_write(files.key, reply.body, 63, "ok")]
                      ELSE files
          /\ IF r.ok
             THEN key_content' = Some(r.value) /\ pc' = "extract" /\ UNCHANGED err
             ELSE Fail(r.error) /\ UNCHANGED key_content
  /\ UNCHANGED <<keychain, umask, invocation, username, user, password, otp_secret,
                 password_otp, cert_content, requestsSent, outputs, history, probe>>

AwaitResponse ==
  /\ pc = "await"
  /\ \E reply \in Replies :
       LET r == request_result(reply)
       IN IF r.ok
          THEN key_content' = Some(r.value) /\ pc' = "extract" /\ UNCHANGED err
          ELSE Fail(r.error) /\ UNCHANGED key_content
  /\ UNCHANGED <<keychain, files, umask, invocation, username, user, password, otp_secret,
                 password_otp, cert_content, requestsSent, outputs, history, probe>>

\* extract_certificate(&key_content)? (main.rs:255)
ExtractCertificate ==
  /\ pc = "extract"
  /\ LET r == extract_certificate(key_content.value)
     IN IF r.ok
        THEN cert_content' = Some(r.value) /\ pc' = "write_key" /\ UNCHANGED err
        ELSE Fail(r.error) /\ UNCHANGED cert_content
  /\ UNCHANGED <<keychain, files, umask, invocation, username, user, password, otp_secret,
                 password_otp, key_content, requestsSent, outputs, history, probe>>

(***************************************************************************)
(* Persistence Writer: save_key_files (main.rs:138-175)                    *)
(***************************************************************************)
\* fs::write(key_path, key_content) (main.rs:140)
WritePrivateKey ==
  /\ pc = "write_key"
  /\ \E u \in Umasks, o \in WriteOutcomes :
       /\ umask' = Some(u)
       /\ files' = [files EXCEPT !.key = fs_write(files.key, key_content.value, u, o)]
       /\ IF o = "ok" THEN pc' = "set_permissions" /\ UNCHANGED err
          ELSE Fail("PersistenceFailed")
  /\ UNCHANGED <<keychain, invocation, locals, requestsSent, outputs, history, probe>>

\* fs::metadata, set_mode(0o600), fs::set_permissions (main.rs:143-146)
SetPermissions ==
  /\ pc = "set_permissions"
  /\ \E o \in {"ok", "metadata_failed", "chmod_failed"} :
       IF o = "ok"
       THEN /\ files' = [files EXCEPT !.key.mode = MODE_600]
            /\ pc' = "write_cert"
            /\ UNCHANGED err
       ELSE /\ Fail("PersistenceFailed")
            /\ UNCHANGED files
  /\ UNCHANGED <<keychain, umask, invocation, locals, requestsSent, outputs, history, probe>>

\* fs::write(&cert_path, cert_content) (main.rs:149-154)
WriteCertificate ==
  /\ pc = "write_cert"
  /\ \E o \in WriteOutcomes :
       /\ files' = [files EXCEPT !.cert = fs_write(files.cert, cert_content.value, umask.value, o)]
       /\ IF o = "ok" THEN pc' = "derive_public_key" /\ UNCHANGED err
          ELSE Fail("PersistenceFailed")
  /\ UNCHANGED <<keychain, umask, invocation, locals, requestsSent, outputs, history, probe>>

\* ssh-keygen -y -f key_path (main.rs:157-169)
DerivePublicKey ==
  /\ pc = "derive_public_key"
  /\ \E o \in {"ok", "nonzero", "spawn_failed"} :
       CASE o = "ok" -> pc' = "write_pub" /\ UNCHANGED <<err, toolFailed>>
         [] o = "nonzero" ->
              Fail("ExternalToolFailed") /\ toolFailed' = toolFailed \cup {"derive"}
         [] OTHER -> Fail("ExternalToolUnavailable") /\ UNCHANGED toolFailed
  /\ UNCHANGED <<keychain, files, umask, invocation, locals, requestsSent, outputs, start,
                 entered, probe>>

\* fs::write(&pub_path, output.stdout) (main.rs:171-172)
WritePublicKey ==
  /\ pc = "write_pub"
  /\ \E o \in WriteOutcomes :
       /\ files' = [files EXCEPT !.pub = fs_write(files.pub, PUBLIC_KEY, umask.value, o)]
       /\ IF o = "ok" THEN pc' = "report" /\ UNCHANGED err
          ELSE Fail("PersistenceFailed")
  /\ UNCHANGED <<keychain, umask, invocation, locals, requestsSent, outputs, history, probe>>

\* println!("Successfully obtained ssh key: ...") (main.rs:260)
ReportSuccess ==
  /\ pc = "report"
  /\ reported' = TRUE
  /\ pc' = "validity"
  /\ UNCHANGED <<keychain, files, umask, invocation, locals, err, requestsSent, validity,
                 history, probe>>

(***************************************************************************)
(* Certificate validity (main.rs:178-198, 263-266)                         *)
(***************************************************************************)
IsSpace(c) == c \in {" ", "\t", "\n", "\r"}
\* str::trim
trim(s) ==
  LET keep == {i \in 1..Len(s) : ~IsSpace(s[i])}
  IN IF keep = {} THEN <<>>
     ELSE SubSeq(s, CHOOSE i \in keep : \A j \in keep : i <= j,
                    CHOOSE i \in keep : \A j \in keep : i >= j)
\* str::starts_with
starts_with(s, p) == Len(s) >= Len(p) /\ SubSeq(s, 1, Len(p)) = p
\* str::to_lowercase on the ASCII letters
to_lowercase(s) ==
  [i \in 1..Len(s) |->
     IF InAlphabet(UPPERCASE, s[i]) THEN LOWERCASE[IndexOf(UPPERCASE, s[i])] ELSE s[i]]

VALID_PREFIX == <<"V", "a", "l", "i", "d", ":">>
VALID_UNKNOWN == <<"V", "a", "l", "i", "d", ":", " ", "u", "n", "k", "n", "o", "w", "n">>
\* standard output of `ssh-keygen -L`
KEYGEN_L_OUTPUT ==
  <<"n", "e", "r", "s", "c", "-", "c", "e", "r", "t", ".", "p", "u", "b", ":", "\n", " ", " ",
    " ", " ", " ", " ", " ", " ", "T", "y", "p", "e", ":", " ", "s", "s", "h", "-", "r", "s",
    "a", "-", "c", "e", "r", "t", "-", "v", "0", "1", "@", "o", "p", "e", "n", "s", "s", "h",
    ".", "c", "o", "m", " ", "u", "s", "e", "r", " ", "c", "e", "r", "t", "i", "f", "i", "c",
    "a", "t", "e", "\n", " ", " ", " ", " ", " ", " ", " ", " ", "V", "a", "l", "i", "d", ":",
    " ", "f", "r", "o", "m", " ", "2", "0", "2", "6", "-", "1", "1", "-", "0", "5", "T", "0",
    "8", ":", "0", "0", ":", "0", "0", " ", "t", "o", " ", "2", "0", "2", "6", "-", "1", "1",
    "-", "0", "6", "T", "0", "8", ":", "0", "0", ":", "0", "0", "\n">>
KEYGEN_L_NO_VALIDITY ==
  <<"n", "e", "r", "s", "c", "-", "c", "e", "r", "t", ".", "p", "u", "b", ":", "\n", " ", " ",
    " ", " ", " ", " ", " ", " ", "T", "y", "p", "e", ":", " ", "s", "s", "h", "-", "r", "s",
    "a", "-", "c", "e", "r", "t", "-", "v", "0", "1", "@", "o", "p", "e", "n", "s", "s", "h",
    ".", "c", "o", "m", " ", "u", "s", "e", "r", " ", "c", "e", "r", "t", "i", "f", "i", "c",
    "a", "t", "e", "\n">>
InspectOutcomes ==
  {[kind |-> "spawn_failed"], [kind |-> "nonzero"]}
    \cup {[kind |-> "exit0", stdout |-> t] : t \in {KEYGEN_L_OUTPUT, KEYGEN_L_NO_VALIDITY}}

\* get_cert_validity given what running the tool produced
get_cert_validity(o) ==
  CASE o.kind = "spawn_failed" -> Err("ExternalToolUnavailable")
    [] o.kind = "nonzero" -> Err("ExternalToolFailed")
    [] OTHER ->
         LET hits == {a \in LineStarts(o.stdout) :
                        starts_with(trim(LineAt(o.stdout, a)), VALID_PREFIX)}
         IN IF hits = {} THEN Ok(VALID_UNKNOWN)
            ELSE Ok(trim(LineAt(o.stdout, CHOOSE a \in hits : \A b \in hits : a <= b)))

\* mutation: the error of get_cert_validity is returned with `?`
ShowValidity_Propagate ==
  /\ pc = "validity"
  /\ \E o \in InspectOutcomes :
       LET r == get_cert_validity(o)
       IN /\ validity' = IF r.ok THEN Some(to_lowercase(r.value)) ELSE validity
          /\ toolFailed' = IF o.kind = "nonzero" THEN toolFailed \cup {"inspect"} ELSE toolFailed
          /\ IF r.ok THEN pc' = "done" /\ UNCHANGED err ELSE Fail(r.error)
  /\ UNCHANGED <<keychain, files, umask, invocation, locals, requestsSent, reported,
                 start, entered, probe>>

\* if let Ok(validity) = get_cert_validity(..) { println!(..) }; Ok(())
ShowValidity ==
  /\ pc = "validity"
  /\ \E o \in InspectOutcomes :
       LET r == get_cert_validity(o)
       IN /\ validity' = IF r.ok THEN Some(to_lowercase(r.value)) ELSE validity
          /\ toolFailed' = IF o.kind = "nonzero" THEN toolFailed \cup {"inspect"} ELSE toolFailed
          /\ pc' = "done"
  /\ UNCHANGED <<keychain, files, umask, invocation, locals, err, requestsSent, reported,
                 start, entered, probe>>

Next ==
  \/ Invoke
  \/ ResolveUsername
  \/ UpdatePassword
  \/ UpdateSecret
  \/ DetermineOutputPath
  \/ GetEnvUser
  \/ GetPassword
  \/ GetOtpSecret
  \/ GenerateTotp
  \/ SendRequest
  \/ AwaitResponse
  \/ ExtractCertificate
  \/ WritePrivateKey
  \/ SetPermissions
  \/ WriteCertificate
  \/ DerivePublicKey
  \/ WritePublicKey
  \/ ReportSuccess
  \/ ShowValidity

Spec == Init /\ [][Next]_vars

(***************************************************************************)
(* The pure functions applied to enumerated inputs                         *)
(***************************************************************************)
InitIdle ==
  /\ keychain = EmptyKeychain
  /\ files = NoFiles
  /\ umask = None
  /\ invocations = 0
  /\ pc = "idle"
  /\ args = [username |-> None, update_password |-> FALSE, update_secret |-> FALSE]
  /\ envUser = None
  /\ username = None /\ user = None /\ password = None /\ otp_secret = None
  /\ password_otp = None /\ key_content = None /\ cert_content = None
  /\ err = "none"
  /\ requestsSent = 0
  /\ reported = FALSE /\ validity = None
  /\ start = [keychain |-> keychain, files |-> files]
  /\ entered = None
  /\ toolFailed = {}

program == <<keychain, files, umask, invocations, pc, args, envUser, username, user,
             password, otp_secret, password_otp, key_content, cert_content, err,
             requestsSent, reported, validity, start, entered, toolFailed>>

\* pieces response bodies are assembled from
CERT_RSA == <<"s", "s", "h", "-", "r", "s", "a", " ", "A", "A", "A", "A">>
CERT_ED25519 ==
  <<"s", "s", "h", "-", "e", "d", "2", "5", "5", "1", "9", " ", "B", "B", "B", "B">>
PKCS8_HEADER ==
  <<"-", "-", "-", "-", "-", "B", "E", "G", "I", "N", " ", "P", "R", "I", "V", "A", "T", "E",
    " ", "K", "E", "Y", "-", "-", "-", "-", "-">>
TEXT_FOO == <<"f", "o", "o">>
Fragments ==
  {AUTH_FAILED, RSA_HEADER, OPENSSH_HEADER, CERT_RSA, CERT_ED25519, PKCS8_HEADER, TEXT_FOO,
   <<"\n">>, <<"\r">>}

\* longest body, in fragments
MaxFragments == 3

RECURSIVE BodiesUpTo(_)
BodiesUpTo(n) ==
  IF n = 0 THEN {<<>>}
  ELSE LET shorter == BodiesUpTo(n - 1)
       IN shorter \cup {b \o f : b \in shorter, f \in Fragments}

Bodies == BodiesUpTo(MaxFragments)
Statuses == {199, 200, 204, 299, 302, 500}

InitParse ==
  /\ InitIdle
  /\ probe \in {[op |-> "response", status |-> s, body |-> b] : s \in Statuses, b \in Bodies}

\* request_ssh_key on the response (main.rs:102-124)
ProbeClassify ==
  /\ probe.op = "response"
  /\ probe' = [op |-> "classified", status |-> probe.status, body |-> probe.body,
               result |-> ClassifyResponse(probe.status, probe.body)]
  /\ UNCHANGED program

\* extract_certificate on the body (main.rs:128-135)
ProbeExtract ==
  /\ probe.op = "response"
  /\ probe' = [op |-> "extracted", body |-> probe.body,
               result |-> extract_certificate(probe.body)]
  /\ UNCHANGED program

NextParse == ProbeClassify \/ ProbeExtract

SpecParse == InitParse /\ [][NextParse]_vars

\* OTP seeds and clock readings for generate_totp
SEED_SPEC == <<"J", "B", "S", "W", "Y", "3", "D", "P", "E", "H", "P", "K", "3", "P", "X", "P">>
SEED_SPEC_LOWER ==
  <<"j", "b", "s", "w", "y", "3", "d", "p", "e", "h", "p", "k", "3", "p", "x", "p">>
SEED_WITH_DIGIT_1 ==
  <<"J", "B", "S", "W", "Y", "3", "D", "P", "E", "H", "P", "K", "3", "P", "X", "1">>
SEED_TRAILING_BITS == <<"A", "B">>
ValidTotpSecrets == {SEED_VALID, SEED_SPEC, SEED_SPEC_LOWER}
TotpSecrets == ValidTotpSecrets \cup {SEED_INVALID, SEED_WITH_DIGIT_1, SEED_TRAILING_BITS}
TotpTimes == {0, 29, 30, 59, 1111111080, 1111111109}

InitTotp ==
  /\ InitIdle
  /\ probe = [op |-> "totp", first |-> None, second |-> None]

TotpCall(secret, now) ==
  [secret |-> secret, now |-> now, result |-> generate_totp(secret, now)]

\* a call of generate_totp (main.rs:66-82)
ProbeTotpFirst ==
  /\ probe.op = "totp" /\ ~probe.first.some
  /\ \E secret \in TotpSecrets, now \in TotpTimes :
       probe' = [probe EXCEPT !.first = Some(TotpCall(secret, now))]
  /\ UNCHANGED program

\* a later call, when the clock has not gone back
ProbeTotpSecond ==
  /\ probe.op = "totp" /\ probe.first.some /\ ~probe.second.some
  /\ \E secret \in TotpSecrets, now \in TotpTimes :
       /\ now >= probe.first.value.now
       /\ probe' = [probe EXCEPT !.second = Some(TotpCall(secret, now))]
  /\ UNCHANGED program

NextTotp == ProbeTotpFirst \/ ProbeTotpSecond

SpecTotp == InitTotp /\ [][NextTotp]_vars

(***************************************************************************)
(* Properties                                                              *)
(***************************************************************************)
Occurs(s, p) == \E i \in 1..Len(s) : i + Len(p) - 1 <= Len(s) /\ \A k \in 1..Len(p) : s[i + k - 1] = p[k]
HasKeyHeader(b) == Occurs(b, RSA_HEADER) \/ Occurs(b, OPENSSH_HEADER)
HasCertMarker(t) == Occurs(t, SSH_RSA) \/ Occurs(t, SSH_ED25519)

\* C1: request_ssh_key classifies every (status, body) by the ordered rules:
\* a status outside 200..299 gives ExchangeFailed; otherwise a body containing
\* "Authentication failed" gives AuthenticationFailed; otherwise a body with
\* neither private-key header gives MalformedResponse; otherwise the result is
\* success and the Key Bundle is the body unchanged.  The rules are disjoint
\* and exhaustive, so exactly one outcome is produced.
C1_ClassificationRules ==
  probe.op = "classified" =>
    LET s == probe.status
        b == probe.body
        r == probe.result
    IN /\ (s < 200 \/ s > 299) => r = Err("ExchangeFailed")
       /\ (s >= 200 /\ s <= 299 /\ Occurs(b, AUTH_FAILED)) => r = Err("AuthenticationFailed")
       /\ (s >= 200 /\ s <= 299 /\ ~Occurs(b, AUTH_FAILED) /\ ~HasKeyHeader(b))
            => r = Err("MalformedResponse")
       /\ (s >= 200 /\ s <= 299 /\ ~Occurs(b, AUTH_FAILED) /\ HasKeyHeader(b)) => r = Ok(b)

C1_Witness ==
  /\ probe.op = "classified"
  /\ probe.status = 204
  /\ Occurs(probe.body, OPENSSH_HEADER) /\ ~Occurs(probe.body, RSA_HEADER)
  /\ probe.result = Ok(probe.body)

\* C2 as stated: every response whose body contains "Authentication failed" is
\* classified AuthenticationFailed, whatever the status
C2_AuthFailureBeatsStatus ==
  (probe.op = "classified" /\ Occurs(probe.body, AUTH_FAILED))
    => probe.result = Err("AuthenticationFailed")

\* C2 amended: for a 2xx status (200 included) a body containing
\* "Authentication failed" is classified AuthenticationFailed even when it also
\* carries a private-key header; for any other status the status check comes
\* first and the classification is ExchangeFailed
C2_AuthFailureBeatsKeyHeader ==
  (probe.op = "classified" /\ Occurs(probe.body, AUTH_FAILED))
    => probe.result = IF probe.status >= 200 /\ probe.status <= 299
                      THEN Err("AuthenticationFailed")
                      ELSE Err("ExchangeFailed")

C2_Witness ==
  /\ probe.op = "classified"
  /\ probe.status = 200
  /\ Occurs(probe.body, AUTH_FAILED) /\ Occurs(probe.body, RSA_HEADER)
  /\ probe.result = Err("AuthenticationFailed")

PrePersistenceErrors ==
  {"NoHomeDirectory", "NoUsername", "SecretNotFound", "InvalidSecret", "ClientBuildFailed",
   "SendFailed", "BodyReadFailed", "ExchangeFailed", "AuthenticationFailed",
   "MalformedResponse", "NoCertificateFound"}

C4_NoWriteBeforePersistence ==
  /\ (pc = "failed" /\ err \in PrePersistenceErrors) => files = start.files
  /\ files # start.files =>
       /\ key_content.some /\ HasKeyHeader(key_content.value)
       /\ cert_content.some /\ HasCertMarker(cert_content.value)
       /\ requestsSent = 1

C4_Witness ==
  pc = "failed" /\ err = "NoCertificateFound" /\ files.key.exists /\ files = start.files

\* C5: the private-key file never exists with permission bits beyond 0600
C5_KeyNeverBroaderThan600 ==
  files.key.exists => BitAnd[files.key.mode, MODE_ALL - MODE_600] = 0

\* C6: the secrets a fetch reads are the entries of the acting username, the
\* account the store modes write for the same arguments and environment
C6_FetchReadsActingAccount ==
  /\ password.some =>
       password = get_generic_password(keychain, SERVICE_NAME, username.value)
  /\ otp_secret.some =>
       otp_secret = get_generic_password(keychain, SECRET_SERVICE, username.value)

\* C7 as stated: whenever ssh-keygen exits non-zero, in the derivation of the
\* public key or in the inspection of the certificate, the invocation ends in
\* the ExternalToolFailed error and does not report success
C7_ToolFailureIsTerminal ==
  toolFailed # {} => (pc = "failed" /\ err = "ExternalToolFailed" /\ ~reported)

\* C7 amended: a non-zero exit in the derivation of the public key ends the
\* invocation in the ExternalToolFailed error with no success reported; a
\* non-zero exit in the inspection of the certificate is ignored: success has
\* been reported, no validity line is printed and the invocation ends normally
C7_OnlyDerivationFailureIsTerminal ==
  /\ "derive" \in toolFailed => (pc = "failed" /\ err = "ExternalToolFailed" /\ ~reported)
  /\ "inspect" \in toolFailed =>
       (pc = "done" /\ err = "none" /\ reported /\ ~validity.some)

C7_Witness ==
  "inspect" \in toolFailed /\ pc = "done" /\ reported

\* C8: extract_certificate returns the first line of the bundle that contains
\* "ssh-rsa" or "ssh-ed25519", unchanged, and fails with NoCertificateFound
\* exactly when no line contains either.  A line is the text between line
\* breaks ("\n" or "\r\n"): it starts at the start of the bundle or after a
\* "\n", holds no "\n", and ends at the end of the bundle, before a "\r\n", or
\* before a "\n" that no "\r" precedes.
IsLineOf(b, a, e) ==
  /\ a = 1 \/ b[a - 1] = "\n"
  /\ \A i \in a..e : b[i] # "\n"
  /\ \/ e = Len(b)
     \/ e + 2 <= Len(b) /\ b[e + 1] = "\r" /\ b[e + 2] = "\n"
     \/ e + 1 <= Len(b) /\ b[e + 1] = "\n" /\ (e < a \/ b[e] # "\r")

C8_FirstCertificateLine ==
  probe.op = "extracted" =>
    LET b == probe.body
        r == probe.result
    IN /\ ~r.ok <=> ~HasCertMarker(b)
       /\ ~r.ok => r = Err("NoCertificateFound")
       /\ r.ok => \E a \in 1..Len(b) : \E e \in a..Len(b) :
                    /\ IsLineOf(b, a, e)
                    /\ r.value = SubSeq(b, a, e)
                    /\ HasCertMarker(r.value)
                    /\ ~HasCertMarker(SubSeq(b, 1, a - 1))

C8_Witness ==
  /\ probe.op = "extracted"
  /\ probe.body = TEXT_FOO \o <<"\n">> \o CERT_ED25519
  /\ probe.result = Ok(CERT_ED25519)

\* C9: for a valid base32 secret generate_totp yields a string of exactly six
\* ASCII digits, and two calls with the same secret whose clock readings fall
\* in the same 30-second window yield the same code, whatever was computed by
\* the call before
IsSixDigits(code) ==
  Len(code) = 6 /\ \A i \in 1..6 : code[i] \in {"0", "1", "2", "3", "4", "5", "6", "7", "8", "9"}

C9_TotpStableWithinWindow ==
  probe.op = "totp" =>
    /\ \A c \in {probe.first, probe.second} :
         c.some =>
           /\ c.value.secret \in ValidTotpSecrets => c.value.result.ok
           /\ c.value.result.ok => IsSixDigits(c.value.result.value)
    /\ (/\ probe.first.some /\ probe.second.some
        /\ probe.first.value.secret = probe.second.value.secret
        /\ probe.first.value.now \div 30 = probe.second.value.now \div 30)
         => probe.first.value.result = probe.second.value.result

C9_Witness ==
  /\ probe.op = "totp" /\ probe.first.some /\ probe.second.some
  /\ probe.first.value.secret = SEED_VALID /\ probe.second.value.secret = SEED_VALID
  /\ probe.first.value.now = 1111111080 /\ probe.second.value.now = 1111111109
  /\ probe.second.value.result = Ok(<<"0", "8", "1", "8", "0", "4">>)

\* C10: an invocation with the update-password flag writes nothing but the
\* password entry of the acting username and ends: no request is sent, no file
\* is touched and the OTP-seed entries stay as they were, also when the
\* update-secret flag is set too; with only the update-secret flag it writes
\* nothing but the OTP-seed entry of the acting username
StoreModeFrame(service) ==
  /\ requestsSent = 0
  /\ files = start.files
  /\ pc \in {"update_password", "update_secret", "done", "failed"}
  /\ \A k \in Keys : k # <<service, username.value>> => keychain[k] = start.keychain[k]
  /\ keychain[<<service, username.value>>] =
       IF pc = "done" THEN entered ELSE start.keychain[<<service, username.value>>]

C10_StoreModesWriteOneEntry ==
  /\ (args.update_password /\ username.some) => StoreModeFrame(SERVICE_NAME)
  /\ (~args.update_password /\ args.update_secret /\ username.some)
       => StoreModeFrame(SECRET_SERVICE)
  /\ ((args.update_password \/ args.update_secret) /\ ~username.some)
       => (keychain = start.keychain /\ files = start.files /\ requestsSent = 0)

C10_Witness ==
  /\ args.update_password /\ args.update_secret /\ pc = "done"
  /\ keychain # start.keychain
  /\ start.keychain[<<SECRET_SERVICE, username.value>>].some

====
